---- MODULE Spec2Model ----
(***************************************************************************)
(* Model of the OrionX compliance platform's workflow engine               *)
(* (services/workflow-orchestration) and audit log (services/audit-trail). *)
(*                                                                         *)
(* Every handler is an async function run by a multi-threaded runtime: a   *)
(* caller is a process with a position (pc), the request it is serving     *)
(* (req) and the locals that live across an await (loc).  A handler is cut *)
(* at its await points: every await in these services is the acquisition   *)
(* of a tokio RwLock.  A call starts when its first lock is granted; res   *)
(* is the response most recently returned to any caller.                   *)
(*                                                                         *)
(* Fields the engine only stores and echoes (client_id, campaign_name,     *)
(* config, start_date, deadline, created_at, resolved_at) are not kept.    *)
(***************************************************************************)
EXTENDS Integers, Sequences, FiniteSets, TLC

VARIABLES
    workflows,      \* WorkflowService.workflows : id -> StoredWorkflow
    tasks,          \* WorkflowService.tasks     : id -> StoredTask
    escalations,    \* WorkflowService.escalations : id -> StoredEscalation
    wfLock,         \* the RwLock around workflows
    taskLock,       \* the RwLock around tasks
    escLock,        \* the RwLock around escalations
    nextWf,         \* number of campaign identifiers drawn so far
    now,            \* the clock read by Utc::now()
    pc, req, loc, res,
    retries,        \* history: the retry_task calls made so far on each task
    entries,        \* AuditService.entries : Vec<AuditEntry>
    auditLock,      \* the RwLock around entries
    auditNow,       \* the audit service's clock
    apc, aloc,      \* the audit callers' positions and locals
    tampered,       \* the out-of-band change made to the persisted log, if any
    aresp,          \* the latest response of a read handler of the audit service
    call            \* the latest call of a library function: arguments, result

wfVars == <<workflows, tasks, escalations, wfLock, taskLock, escLock,
            nextWf, now, pc, req, loc, res, retries>>
auditVars == <<entries, auditLock, auditNow, apc, aloc, tampered, aresp>>
libVars == <<call>>
vars == <<wfVars, auditVars, libVars>>

\* ---------------------------------------------------------------- bounds
NumProcs == 2
MaxWorkflows == 1
NumSuppliers == 2
MaxSupplierList == 2
MaxEscalations == 2
MaxTime == 1
MaxEntries == 3
AuditMaxTime == 1

\* ------------------------------------------------------- program constants
DefaultMaxRetries == 3
StaggerMinutes == 2
FarFuture == 99

Procs == 1..NumProcs
None == <<>>
Some(v) == <<v>>

Upd(f, k, v) == [x \in (DOMAIN f) \cup {k} |-> IF x = k THEN v ELSE f[x]]

\* ------------------------------------------------------------ state machine
WorkflowStates == {"Pending", "Active", "Paused", "Completed", "Cancelled", "Failed"}
TaskStates == {"Scheduled", "Running", "Completed", "Failed", "Exhausted",
               "Skipped", "Cancelled"}

\* can_transition_to with a terminal state reopened (Completed -> Active)
can_transition_to_reopening(self, target) ==
    \/ <<self, target>> \in {<<"Pending", "Active">>, <<"Pending", "Cancelled">>,
                             <<"Active", "Paused">>, <<"Active", "Completed">>,
                             <<"Active", "Cancelled">>, <<"Active", "Failed">>,
                             <<"Paused", "Active">>, <<"Paused", "Cancelled">>}
    \/ <<self, target>> = <<"Completed", "Active">>

\* can_transition_to with the arm (Paused, Cancelled) forgotten
can_transition_to_no_paused_cancel(self, target) ==
    <<self, target>> \in {<<"Pending", "Active">>, <<"Pending", "Cancelled">>,
                          <<"Active", "Paused">>, <<"Active", "Completed">>,
                          <<"Active", "Cancelled">>, <<"Active", "Failed">>,
                          <<"Paused", "Active">>}

\* WorkflowState::can_transition_to
can_transition_to(self, target) ==
    CASE self = "Pending" /\ target = "Active" -> TRUE
      [] self = "Pending" /\ target = "Cancelled" -> TRUE
      [] self = "Active" /\ target = "Paused" -> TRUE
      [] self = "Active" /\ target = "Completed" -> TRUE
      [] self = "Active" /\ target = "Cancelled" -> TRUE
      [] self = "Active" /\ target = "Failed" -> TRUE
      [] self = "Paused" /\ target = "Active" -> TRUE
      [] self = "Paused" /\ target = "Cancelled" -> TRUE
      [] OTHER -> FALSE

\* WorkflowState::is_terminal
is_terminal(s) == s \in {"Completed", "Cancelled", "Failed"}

\* TaskState::can_transition_to
task_can_transition_to(self, target) ==
    CASE self = "Scheduled" /\ target \in {"Running", "Skipped", "Cancelled"} -> TRUE
      [] self = "Running" /\ target \in {"Completed", "Failed", "Cancelled"} -> TRUE
      [] self = "Failed" /\ target \in {"Running", "Exhausted", "Cancelled"} -> TRUE
      [] OTHER -> FALSE

\* TaskState::is_terminal
task_is_terminal(s) == s \in {"Completed", "Exhausted", "Skipped", "Cancelled"}

\* The status strings callers send.  str::to_lowercase on the inputs of this
\* model: the ones listed have upper-case letters.
StatusInputs == {"pending", "active", "paused", "completed", "cancelled",
                 "canceled", "failed", "ACTIVE", "archived"}
to_lowercase(s) ==
    CASE s = "ACTIVE" -> "active"
      [] s = "Update" -> "update"
      [] s = "CREATE" -> "create"
      [] s = "Create" -> "create"
      [] s = "Read" -> "read"
      [] OTHER -> s

\* WorkflowState::from_str : Option<WorkflowState>
from_str(s) ==
    LET l == to_lowercase(s) IN
    CASE l = "pending" -> Some("Pending")
      [] l = "active" -> Some("Active")
      [] l = "paused" -> Some("Paused")
      [] l = "completed" -> Some("Completed")
      [] l \in {"cancelled", "canceled"} -> Some("Cancelled")
      [] l = "failed" -> Some("Failed")
      [] OTHER -> None

\* ---------------------------------------------------------------- requests
SupplierIds == 1..NumSuppliers
RECURSIVE SeqsUpTo(_, _)
SeqsUpTo(S, n) ==
    IF n = 0 THEN {<<>>}
    ELSE LET shorter == SeqsUpTo(S, n - 1) IN
         shorter \cup {Append(s, x) : s \in {t \in shorter : Len(t) = n - 1}, x \in S}
\* Supplier identifiers are opaque: of the lists that differ only by a renaming
\* of the suppliers, the one naming them 1, 2, ... in order of first use is kept.
FirstUseOrder(s) ==
    \A i \in 1..Len(s) : \A x \in 1..(s[i] - 1) : \E j \in 1..(i - 1) : s[j] = x
SupplierLists == {s \in SeqsUpTo(SupplierIds, MaxSupplierList) : FirstUseOrder(s)}

\* Deadline strings and DateTime::parse_from_rfc3339 on them (minutes since
\* the start of the run; the first is no RFC 3339 date).
DeadlineInputs == {"next friday", "1970-01-01T00:00:00Z", "2099-01-01T00:00:00Z"}
parse_from_rfc3339(s) ==
    CASE s = "1970-01-01T00:00:00Z" -> Some(0)
      [] s = "2099-01-01T00:00:00Z" -> Some(FarFuture)
      [] OTHER -> None

WorkflowIds == 1..MaxWorkflows
TaskIds == 1..(MaxWorkflows * MaxSupplierList)
EscalationIds == 1..MaxEscalations
ResultInputs == {Some("received")}
ResolutionInputs == {"contacted supplier"}

\* The request a caller is serving: the operation and the arguments its
\* later steps read.
NoReq == [op |-> "none", id |-> 0, status |-> ""]
Req(op, id, status) == [op |-> op, id |-> id, status |-> status]

\* What is kept of a response: "ok", or the message of the error returned.
Ok(op, id, v) == "ok"
Err(op, id, e) == e
NoRes == "none"

\* ------------------------------------------------------------------- locks
\* tokio::sync::RwLock: one writer or any number of readers.
Unlocked == [w |-> 0, r |-> {}]
CanRead(l) == l.w = 0
\* a write lock that excludes nobody
CanWrite_unguarded(l) == TRUE
CanWrite(l) == l.w = 0 /\ l.r = {}
AcquireRead(l, p) == [l EXCEPT !.r = @ \cup {p}]
AcquireWrite(l, p) == [l EXCEPT !.w = p]
\* dropping every guard process p holds on l
Release(l, p) == [w |-> IF l.w = p THEN 0 ELSE l.w, r |-> l.r \ {p}]

\* --------------------------------------------------------------- responses
TasksOf(tks, wid) == {t \in DOMAIN tks : tks[t].workflow_id = wid}

\* Display for WorkflowState and TaskState: the lower-case name
to_string(state) ==
    CASE state = "Pending" -> "pending"
      [] state = "Active" -> "active"
      [] state = "Paused" -> "paused"
      [] state = "Completed" -> "completed"
      [] state = "Cancelled" -> "cancelled"
      [] state = "Failed" -> "failed"
      [] state = "Scheduled" -> "scheduled"
      [] state = "Running" -> "running"
      [] state = "Exhausted" -> "exhausted"
      [] state = "Skipped" -> "skipped"

\* --------------------------------------------------------- calls and returns
Idle(p) == pc[p] = "idle"

\* the handler returns: its guards are dropped by the caller of Return
Return(p, r) ==
    /\ pc' = [pc EXCEPT ![p] = "idle"]
    /\ req' = [req EXCEPT ![p] = NoReq]
    /\ loc' = [loc EXCEPT ![p] = None]
    /\ res' = r
    /\ UNCHANGED <<auditVars, libVars>>

\* the handler suspends at its next await
Goto(p, pos, r, l) ==
    /\ pc' = [pc EXCEPT ![p] = pos]
    /\ req' = [req EXCEPT ![p] = r]
    /\ loc' = [loc EXCEPT ![p] = l]
    /\ res' = res
    /\ UNCHANGED <<auditVars, libVars>>

Tick ==
    /\ now < MaxTime
    /\ now' = now + 1
    /\ UNCHANGED <<workflows, tasks, escalations, wfLock, taskLock, escLock,
                   nextWf, pc, req, loc, res, retries>>
    /\ UNCHANGED <<auditVars, libVars>>

\* ------------------------------------------------------------ create_workflow
\* schedule_initial_outreach with every task scheduled at once
schedule_initial_outreach_at_once(workflow_id, supplier_ids, base, t) ==
    [i \in 1..Len(supplier_ids) |->
        [id |-> base + i, workflow_id |-> workflow_id,
         supplier_id |-> supplier_ids[i], task_type |-> "InitialOutreach",
         scheduled_at |-> t, priority |-> 100]]

\* WorkflowScheduler::schedule_initial_outreach: the i-th supplier's task, with
\* identifiers base+1, base+2, ...
schedule_initial_outreach(workflow_id, supplier_ids, base, t) ==
    [i \in 1..Len(supplier_ids) |->
        [id |-> base + i, workflow_id |-> workflow_id,
         supplier_id |-> supplier_ids[i], task_type |-> "InitialOutreach",
         scheduled_at |-> t + (i - 1) * StaggerMinutes, priority |-> 100]]

NewStoredTask(st) ==
    [id |-> st.id, workflow_id |-> st.workflow_id, supplier_id |-> st.supplier_id,
     task_type |-> st.task_type, state |-> "Scheduled", retry_count |-> 0,
     max_retries |-> DefaultMaxRetries, scheduled_at |-> Some(st.scheduled_at),
     started_at |-> None, completed_at |-> None, error |-> None, result |-> None]

\* the initial progress with every supplier counted as complete
NewStoredWorkflow_all_complete(id, supplier_ids) ==
    [id |-> id, suppliers |-> supplier_ids, state |-> "Active",
     progress |-> [total_suppliers |-> Len(supplier_ids), contacted |-> 0,
                   responded |-> 0, complete |-> Len(supplier_ids),
                   escalated |-> 0, percent_complete |-> 0]]

\* lines 92-109: the campaign as create_workflow builds it
NewStoredWorkflow(id, supplier_ids) ==
    [id |-> id, suppliers |-> supplier_ids, state |-> "Active",
     progress |-> [total_suppliers |-> Len(supplier_ids), contacted |-> 0,
                   responded |-> 0, complete |-> 0, escalated |-> 0,
                   percent_complete |-> 0]]

\* lines 87-90: the deadline does not parse
create_workflow_reject(p) ==
    /\ Idle(p)
    /\ \E d \in DeadlineInputs :
          /\ parse_from_rfc3339(d) = None
          /\ Return(p, Err("create_workflow", 0, "Invalid deadline format"))
    /\ UNCHANGED <<workflows, tasks, escalations, wfLock, taskLock, escLock,
                   nextWf, now, retries>>

\* lines 92-134: build the campaign, schedule and store its tasks under the
\* tasks lock, drop the lock
create_workflow_tasks(p) ==
    /\ Idle(p)
    /\ nextWf < MaxWorkflows
    /\ CanWrite(taskLock)
    /\ \E supplier_ids \in SupplierLists, d \in DeadlineInputs :
        /\ parse_from_rfc3339(d) # None
        /\ LET id == nextWf + 1
               workflow == NewStoredWorkflow(id, supplier_ids)
               scheduled_tasks == schedule_initial_outreach(id, supplier_ids,
                                      Cardinality(DOMAIN tasks), now)
               new == {scheduled_tasks[i].id : i \in DOMAIN scheduled_tasks}
               byId(k) == CHOOSE i \in DOMAIN scheduled_tasks : scheduled_tasks[i].id = k
           IN /\ nextWf' = id
              /\ tasks' = [k \in (DOMAIN tasks) \cup new |->
                              IF k \in new THEN NewStoredTask(scheduled_tasks[byId(k)])
                              ELSE tasks[k]]
              /\ Goto(p, "cw_workflows", Req("create_workflow", id, ""), Some(workflow))
    /\ UNCHANGED <<workflows, escalations, wfLock, taskLock, escLock, now, retries>>

\* lines 136-142: store the campaign under the workflows lock
create_workflow_store(p) ==
    /\ pc[p] = "cw_workflows"
    /\ CanWrite(wfLock)
    /\ LET workflow == loc[p][1] IN
          /\ workflows' = Upd(workflows, workflow.id, workflow)
          /\ Return(p, Ok("create_workflow", workflow.id, to_string(workflow.state)))
    /\ UNCHANGED <<tasks, escalations, wfLock, taskLock, escLock, nextWf, now, retries>>

\* ------------------------------------------------ list_workflows, get_workflow
\* lines 147 and 158: the workflows read guard, held across the next await
read_workflows(p) ==
    /\ Idle(p)
    /\ CanRead(wfLock)
    /\ wfLock' = AcquireRead(wfLock, p)
    /\ \/ Goto(p, "rw_tasks", Req("list_workflows", 0, ""), None)
       \/ \E id \in WorkflowIds : Goto(p, "rw_tasks", Req("get_workflow", id, ""), None)
    /\ UNCHANGED <<workflows, tasks, escalations, taskLock, escLock, nextWf, now, retries>>

\* lines 148-153
list_workflows(p) ==
    /\ pc[p] = "rw_tasks" /\ req[p].op = "list_workflows"
    /\ CanRead(taskLock)
    /\ Return(p, Ok("list_workflows", 0, "list"))
    /\ wfLock' = Release(wfLock, p)
    /\ UNCHANGED <<workflows, tasks, escalations, taskLock, escLock, nextWf, now, retries>>

\* lines 159-164
get_workflow(p) ==
    /\ pc[p] = "rw_tasks" /\ req[p].op = "get_workflow"
    /\ CanRead(taskLock)
    /\ LET id == req[p].id IN
       Return(p, Ok("get_workflow", id,
                    IF id \in DOMAIN workflows THEN to_string(workflows[id].state)
                    ELSE "null"))
    /\ wfLock' = Release(wfLock, p)
    /\ UNCHANGED <<workflows, tasks, escalations, taskLock, escLock, nextWf, now, retries>>

\* ------------------------------------------- update_status, cancel_workflow
\* The two entry points: update_status(id, status), and cancel_workflow(id),
\* which is update_status(id, "cancelled").
StatusCalls ==
    {Req("update_status", id, s) : id \in WorkflowIds, s \in StatusInputs}
    \cup {Req("cancel_workflow", id, "cancelled") : id \in WorkflowIds}

\* lines 169-170
update_status_invalid(p) ==
    /\ Idle(p)
    /\ \E r \in StatusCalls :
          /\ from_str(r.status) = None
          /\ Return(p, Err(r.op, r.id, "Invalid status"))
    /\ UNCHANGED <<workflows, tasks, escalations, wfLock, taskLock, escLock,
                   nextWf, now, retries>>

\* lines 172-180: under the workflows write guard
update_status_call(p, r) ==
    /\ Idle(p)
    /\ CanWrite(wfLock)
    /\ from_str(r.status) # None
    /\ LET id == r.id
           new_state == from_str(r.status)[1]
       IN IF id \notin DOMAIN workflows
          THEN /\ Return(p, Err(r.op, id, "Workflow not found"))
               /\ UNCHANGED <<workflows, wfLock>>
          ELSE IF ~can_transition_to(workflows[id].state, new_state)
          THEN /\ Return(p, Err(r.op, id, "Invalid state transition"))
               /\ UNCHANGED <<workflows, wfLock>>
          ELSE /\ workflows' = [workflows EXCEPT ![id].state = new_state]
               /\ wfLock' = AcquireWrite(wfLock, p)
               /\ Goto(p, "us_tasks", r, None)
    /\ UNCHANGED <<tasks, escalations, taskLock, escLock, nextWf, now, retries>>

update_status_begin(p) == \E r \in StatusCalls : update_status_call(p, r)

\* lines 182-185: count the tasks under the tasks read guard, return
update_status_finish(p) ==
    /\ pc[p] = "us_tasks"
    /\ CanRead(taskLock)
    /\ Return(p, Ok(req[p].op, req[p].id, to_string(workflows[req[p].id].state)))
    /\ wfLock' = Release(wfLock, p)
    /\ UNCHANGED <<workflows, tasks, escalations, taskLock, escLock, nextWf, now, retries>>

\* ------------------------------------------------ get_workflow_tasks, get_task
get_workflow_tasks(p) ==
    /\ Idle(p)
    /\ CanRead(taskLock)
    /\ \E id \in WorkflowIds : Return(p, Ok("get_workflow_tasks", id, "list"))
    /\ UNCHANGED <<workflows, tasks, escalations, wfLock, taskLock, escLock,
                   nextWf, now, retries>>

get_task(p) ==
    /\ Idle(p)
    /\ CanRead(taskLock)
    /\ \E id \in TaskIds :
          Return(p, Ok("get_task", id,
                       IF id \in DOMAIN tasks THEN to_string(tasks[id].state)
                       ELSE "null"))
    /\ UNCHANGED <<workflows, tasks, escalations, wfLock, taskLock, escLock,
                   nextWf, now, retries>>

\* ---------------------------------------------------------------- complete_task
\* the counts with the tasks still to do taken for the completed ones
progress_counts_pending(tks, workflow_id) ==
    [total |-> Cardinality(TasksOf(tks, workflow_id)),
     completed |-> Cardinality({t \in TasksOf(tks, workflow_id) :
                                   tks[t].state # "Completed"})]

\* update_workflow_progress, lines 292-300: the counts read under the tasks
\* read guard
progress_counts(tks, workflow_id) ==
    [total |-> Cardinality(TasksOf(tks, workflow_id)),
     completed |-> Cardinality({t \in TasksOf(tks, workflow_id) :
                                   tks[t].state = "Completed"})]

\* (completed as f64 / total as f64) * 100.0, kept in thousandths of a percent
percent_of(completed, total) ==
    IF total > 0 THEN (completed * 100000) \div total ELSE 0

\* update_workflow_progress, lines 302-315: the write to the campaign
apply_progress(wfs, workflow_id, c) ==
    IF workflow_id \in DOMAIN wfs
    THEN [wfs EXCEPT
            ![workflow_id].progress.complete = c.completed,
            ![workflow_id].progress.percent_complete = percent_of(c.completed, c.total),
            ![workflow_id].state =
                IF c.completed = c.total /\ c.total > 0 THEN "Completed" ELSE @]
    ELSE wfs

\* complete_task, with update_workflow_progress inlined at its call.  The
\* handler has three awaits: tasks.write() (line 211), then inside
\* update_workflow_progress tasks.read() (line 292) and workflows.write()
\* (line 302).  The write guard of line 211 lives until the return of line
\* 222, because `task` borrows from it.
complete_task(p) ==
    /\ IF Idle(p)
       THEN /\ CanWrite(taskLock)
            /\ \E id \in TaskIds, result \in ResultInputs :
                 IF id \notin DOMAIN tasks
                 THEN /\ Return(p, Err("complete_task", id, "Task not found"))
                      /\ UNCHANGED <<tasks, taskLock>>
                 ELSE /\ tasks' = [tasks EXCEPT ![id].state = "Completed",
                                                ![id].completed_at = Some(now),
                                                ![id].result = result]
                      /\ taskLock' = AcquireWrite(taskLock, p)
                      /\ Goto(p, "uwp_tasks", Req("complete_task", id, ""), None)
            /\ UNCHANGED <<workflows, wfLock>>
       ELSE IF pc[p] = "uwp_tasks"
       THEN /\ CanRead(taskLock)
            /\ Goto(p, "uwp_workflows", req[p],
                    Some(progress_counts(tasks, tasks[req[p].id].workflow_id)))
            /\ UNCHANGED <<workflows, tasks, wfLock, taskLock>>
       ELSE /\ pc[p] = "uwp_workflows"
            /\ CanWrite(wfLock)
            /\ workflows' = apply_progress(workflows, tasks[req[p].id].workflow_id,
                                           loc[p][1])
            /\ Return(p, Ok("complete_task", req[p].id,
                            to_string(tasks[req[p].id].state)))
            /\ taskLock' = Release(taskLock, p)
            /\ UNCHANGED <<tasks, wfLock>>
    /\ UNCHANGED <<escalations, escLock, nextWf, now, retries>>

\* ------------------------------------------------------------------ retry_task
\* reschedule counting the attempt twice
reschedule_counted_twice(task, t) ==
    [task EXCEPT !.retry_count = @ + 2, !.state = "Scheduled",
                 !.scheduled_at = Some(t), !.error = None]

\* reschedule without the increment of retry_count
reschedule_no_increment(task, t) ==
    [task EXCEPT !.state = "Scheduled", !.scheduled_at = Some(t), !.error = None]

\* lines 242-245: the task rescheduled for another attempt
reschedule(task, t) ==
    [task EXCEPT !.retry_count = @ + 1, !.state = "Scheduled",
                 !.scheduled_at = Some(t), !.error = None]

\* the limit test passed one retry too late
retries_exhausted_late(task) == task.retry_count > task.max_retries

\* line 231: the test that sends retry_task to its Exhausted branch
retries_exhausted(task) == task.retry_count >= task.max_retries

\* lines 227-246: under the tasks write guard.  The escalations the run can
\* create are capped at MaxEscalations.
retry_task_call(p, id) ==
    /\ Idle(p)
    /\ CanWrite(taskLock)
    /\ IF id \notin DOMAIN tasks
       THEN /\ Return(p, Err("retry_task", id, "Task not found"))
            /\ UNCHANGED <<tasks, taskLock>>
       ELSE IF retries_exhausted(tasks[id])
       THEN /\ Cardinality(DOMAIN escalations) < MaxEscalations
            /\ tasks' = [tasks EXCEPT ![id].state = "Exhausted"]
            /\ taskLock' = AcquireWrite(taskLock, p)
            /\ Goto(p, "ce_escalations", Req("retry_task", id, ""), None)
       ELSE /\ tasks' = [tasks EXCEPT ![id] = reschedule(@, now)]
            /\ Return(p, Ok("retry_task", id, to_string("Scheduled")))
            /\ UNCHANGED taskLock
    /\ retries' = IF id \in DOMAIN tasks THEN [retries EXCEPT ![id] = @ + 1]
                  ELSE retries
    /\ UNCHANGED <<workflows, escalations, wfLock, escLock, nextWf, now>>

retry_task(p) == \E id \in TaskIds : retry_task_call(p, id)

NewStoredEscalation(id, workflow_id, supplier_id, reason, severity) ==
    [id |-> id, workflow_id |-> workflow_id, supplier_id |-> supplier_id,
     reason |-> reason, severity |-> severity,
     resolved |-> FALSE, resolution |-> None]

\* create_escalation also counting the escalation in the campaign's progress
create_escalation_counting(p) ==
    /\ pc[p] = "ce_escalations"
    /\ CanWrite(escLock)
    /\ LET task == tasks[req[p].id]
           id == Cardinality(DOMAIN escalations) + 1
       IN /\ escalations' = Upd(escalations, id,
                NewStoredEscalation(id, task.workflow_id, task.supplier_id,
                                    "Max retries exceeded", "high"))
          /\ workflows' = IF task.workflow_id \in DOMAIN workflows
                          THEN [workflows EXCEPT
                                  ![task.workflow_id].progress.escalated = @ + 1]
                          ELSE workflows
          /\ Return(p, Ok("retry_task", task.id, to_string(task.state)))
    /\ taskLock' = Release(taskLock, p)
    /\ UNCHANGED <<tasks, wfLock, escLock, nextWf, now, retries>>

\* create_escalation called from retry_task (lines 235-240, 271-288), then the
\* return of line 248
create_escalation(p) ==
    /\ pc[p] = "ce_escalations"
    /\ CanWrite(escLock)
    /\ LET task == tasks[req[p].id]
           id == Cardinality(DOMAIN escalations) + 1
       IN /\ escalations' = Upd(escalations, id,
                NewStoredEscalation(id, task.workflow_id, task.supplier_id,
                                    "Max retries exceeded", "high"))
          /\ Return(p, Ok("retry_task", task.id, to_string(task.state)))
    /\ taskLock' = Release(taskLock, p)
    /\ UNCHANGED <<workflows, tasks, wfLock, escLock, nextWf, now, retries>>

\* ----------------------------------------- list_escalations, resolve_escalation
list_escalations(p) ==
    /\ Idle(p)
    /\ CanRead(escLock)
    /\ Return(p, Ok("list_escalations", 0, "list"))
    /\ UNCHANGED <<workflows, tasks, escalations, wfLock, taskLock, escLock,
                   nextWf, now, retries>>

resolve_escalation(p) ==
    /\ Idle(p)
    /\ CanWrite(escLock)
    /\ \E id \in EscalationIds, resolution \in ResolutionInputs :
       IF id \notin DOMAIN escalations
       THEN /\ Return(p, Err("resolve_escalation", id, "Escalation not found"))
            /\ UNCHANGED escalations
       ELSE /\ escalations' = [escalations EXCEPT
                                  ![id].resolved = TRUE,
                                  ![id].resolution = Some(resolution)]
            /\ Return(p, Ok("resolve_escalation", id, "resolved"))
    /\ UNCHANGED <<workflows, tasks, wfLock, taskLock, escLock, nextWf, now, retries>>

\* ======================================================================
\* Audit trail service (services/audit-trail/src/main.rs)
\* ======================================================================
\* DateTime::to_rfc3339 of minute t of the run, and parse_from_rfc3339 back
to_rfc3339(t) == "1970-01-01T00:0" \o ToString(t) \o ":00+00:00"
AuditTimes == 0..AuditMaxTime
parse_time(s) ==
    IF \E t \in AuditTimes : to_rfc3339(t) = s
    THEN Some(CHOOSE t \in AuditTimes : to_rfc3339(t) = s)
    ELSE None
TimeInputs == {to_rfc3339(t) : t \in AuditTimes} \cup {"yesterday"}

\* AuditService::parse_action: unknown names become Read
parse_action(s) ==
    LET l == to_lowercase(s) IN
    CASE l = "create" -> "Create"
      [] l = "read" -> "Read"
      [] l = "update" -> "Update"
      [] l = "delete" -> "Delete"
      [] l = "extract" -> "Extract"
      [] l = "validate" -> "Validate"
      [] l = "send" -> "Send"
      [] l = "receive" -> "Receive"
      [] l = "escalate" -> "Escalate"
      [] l = "approve" -> "Approve"
      [] l = "reject" -> "Reject"
      [] OTHER -> "Read"

\* The CreateAuditRequests callers send; details is the JSON value {"n": k}.
EntityTypes == {"supplier", "component"}
EntityIds == {1, 2}
DetailValues == {1, 2}
AuditRequests ==
    { [action |-> "create", entity_type |-> "supplier", entity_id |-> 1,
       user_id |-> Some(7), agent_id |-> None, details |-> 1,
       source_document |-> None],
      [action |-> "Update", entity_type |-> "supplier", entity_id |-> 1,
       user_id |-> None, agent_id |-> Some("extractor"), details |-> 2,
       source_document |-> Some("bom.csv")],
      [action |-> "purge", entity_type |-> "component", entity_id |-> 2,
       user_id |-> None, agent_id |-> None, details |-> 1,
       source_document |-> None] }

\* Uuid::to_string and serde_json::Value::to_string
uuid_to_string(id) == "uuid-" \o ToString(id)
details_to_string(d) == "{\"n\":" \o ToString(d) \o "}"

\* AuditService::calculate_hash.  SHA-256 over the concatenated fields is
\* modelled as collision-free: the digest is the tuple of what was fed to the
\* hasher, and the previous hash is fed only when there is one.
calculate_hash(entry, previous_hash) ==
    <<uuid_to_string(entry.id), to_rfc3339(entry.timestamp), entry.action,
      entry.entity_type, uuid_to_string(entry.entity_id),
      details_to_string(entry.details), previous_hash>>

\* Vec::last().map(|e| e.hash.clone())
last_hash(es) == IF Len(es) = 0 THEN None ELSE Some(es[Len(es)].hash)

\* the entry as it is before line 275 assigns its hash
build_entry_unhashed(request, id, t, previous_hash) ==
    [id |-> id, timestamp |-> t,
     action |-> parse_action(request.action),
     entity_type |-> request.entity_type,
     entity_id |-> request.entity_id,
     user_id |-> request.user_id, agent_id |-> request.agent_id,
     details |-> request.details,
     source_document |-> request.source_document,
     hash |-> <<>>, previous_hash |-> previous_hash]

\* lines 261-275: the entry built from a request
build_entry(request, id, t, previous_hash) ==
    LET entry == [id |-> id, timestamp |-> t,
                  action |-> parse_action(request.action),
                  entity_type |-> request.entity_type,
                  entity_id |-> request.entity_id,
                  user_id |-> request.user_id, agent_id |-> request.agent_id,
                  details |-> request.details,
                  source_document |-> request.source_document,
                  hash |-> <<>>, previous_hash |-> previous_hash]
    IN [entry EXCEPT !.hash = calculate_hash(entry, previous_hash)]

\* an insertion at the head instead of the tail
push_front(es, e) == <<e>> \o es

\* Vec::push
push(es, e) == Append(es, e)

AuditIdle(p) == apc[p] = "idle"

AuditFrame == UNCHANGED <<wfVars, libVars>>

AuditClock ==
    /\ auditNow < AuditMaxTime
    /\ auditNow' = auditNow + 1
    /\ UNCHANGED <<entries, auditLock, apc, aloc, tampered, aresp>>
    /\ AuditFrame

\* create_audit_entry, lines 257-275: take the write guard, read the tail's
\* hash, build and hash the entry
create_audit_entry_build(p) ==
    /\ AuditIdle(p)
    /\ CanWrite(auditLock)
    /\ Len(entries) + Cardinality({q \in Procs : apc[q] = "push"}) < MaxEntries
    /\ \E request \in AuditRequests :
          aloc' = [aloc EXCEPT ![p] =
                      Some(build_entry(request,
                               Len(entries) + Cardinality({q \in Procs : apc[q] = "push"}) + 1,
                               auditNow, last_hash(entries)))]
    /\ auditLock' = AcquireWrite(auditLock, p)
    /\ apc' = [apc EXCEPT ![p] = "push"]
    /\ UNCHANGED <<entries, auditNow, tampered, aresp>>
    /\ AuditFrame

\* lines 277-279: push the entry, return, drop the guard
create_audit_entry_push(p) ==
    /\ apc[p] = "push"
    /\ entries' = push(entries, aloc[p][1])
    /\ auditLock' = Release(auditLock, p)
    /\ apc' = [apc EXCEPT ![p] = "idle"]
    /\ aloc' = [aloc EXCEPT ![p] = None]
    /\ UNCHANGED <<auditNow, tampered, aresp>>
    /\ AuditFrame

\* verify_chain, lines 355-357
range_entries(es, from, to) ==
    SelectSeq(es, LAMBDA e : e.timestamp >= from /\ e.timestamp <= to)

\* lines 359-370: the loop over the entries of the range, from the i-th on
RECURSIVE verify_loop(_, _, _)
verify_loop(r, i, previous_hash) ==
    IF i > Len(r) THEN <<>>
    ELSE (IF r[i].hash # calculate_hash(r[i], previous_hash)
          THEN <<r[i].id>> ELSE <<>>)
         \o verify_loop(r, i + 1, Some(r[i].hash))

\* lines 353-378: the VerifyChainResponse for a parsed range
verify_range(es, from, to) ==
    LET r == range_entries(es, from, to)
        broken_links == verify_loop(r, 1, None)
    IN [is_valid |-> broken_links = <<>>,
        entries_verified |-> Len(r),
        first_entry |-> IF Len(r) = 0 THEN "" ELSE to_rfc3339(r[1].timestamp),
        last_entry |-> IF Len(r) = 0 THEN "" ELSE to_rfc3339(r[Len(r)].timestamp),
        broken_links |-> broken_links]

NoResponse == [op |-> "none"]

\* verify_chain: 400 on a date that does not parse, else the verification
\* under the read guard
verify_chain(p) ==
    /\ AuditIdle(p)
    /\ \E from \in TimeInputs, to \in TimeInputs :
         IF parse_time(from) = None
         THEN aresp' = [op |-> "verify", from |-> from, to |-> to,
                           status |-> 400, body |-> "Invalid from date"]
         ELSE IF parse_time(to) = None
         THEN aresp' = [op |-> "verify", from |-> from, to |-> to,
                           status |-> 400, body |-> "Invalid to date"]
         ELSE /\ CanRead(auditLock)
              /\ aresp' = [op |-> "verify", from |-> from, to |-> to,
                              status |-> 200,
                              body |-> verify_range(entries, parse_time(from)[1],
                                                    parse_time(to)[1])]
    /\ UNCHANGED <<entries, auditLock, auditNow, apc, aloc, tampered>>
    /\ AuditFrame

\* ------------------------------------------------------------ read handlers
\* Option::map_or(true, |x| x == v)
matches_opt(o, v) == o = None \/ o[1] = v

\* The AuditQuery of list_audit_entries: filters and paging
ListQueries ==
    { [entity_type |-> None, entity_id |-> None, action |-> None,
       page |-> None, page_size |-> None],
      [entity_type |-> Some("supplier"), entity_id |-> Some(1),
       action |-> Some("CREATE"), page |-> Some(1), page_size |-> Some(2)],
      [entity_type |-> None, entity_id |-> None, action |-> None,
       page |-> Some(2), page_size |-> Some(1)],
      [entity_type |-> None, entity_id |-> None, action |-> None,
       page |-> Some(0), page_size |-> Some(1)] }

unwrap_or(o, d) == IF o = None THEN d ELSE o[1]

\* `x as usize` of an i32: a negative x wraps to 2^64 + x, beyond the length of
\* any vector.  TLC's integers have 32 bits: 2^30 stands for 2^64.
UsizeWrap == 2^30
as_usize(x) == IF x < 0 THEN UsizeWrap + x ELSE x
Min(a, b) == IF a <= b THEN a ELSE b
Ids(es) == [i \in 1..Len(es) |-> es[i].id]

\* list_audit_entries, lines 286-312.  Slicing filtered[start..end] panics
\* when start > end.
list_response(es, query) ==
    LET page == unwrap_or(query.page, 1)
        page_size == unwrap_or(query.page_size, 50)
        filtered == SelectSeq(es, LAMBDA e :
                        /\ matches_opt(query.entity_type, e.entity_type)
                        /\ matches_opt(query.entity_id, e.entity_id)
                        /\ (query.action = None
                            \/ to_lowercase(e.action) = to_lowercase(query.action[1])))
        total == Len(filtered)
        start == as_usize((page - 1) * page_size)
        end == Min(start + as_usize(page_size), total)
    IN IF start > end
       THEN [op |-> "list", status |-> 500, body |-> "panic"]
       ELSE [op |-> "list", status |-> 200,
             body |-> [entries |-> Ids(SubSeq(filtered, start + 1, end)),
                       total |-> total, page |-> page, page_size |-> page_size]]

list_audit_entries(p) ==
    /\ AuditIdle(p)
    /\ CanRead(auditLock)
    /\ \E query \in ListQueries : aresp' = list_response(entries, query)
    /\ UNCHANGED <<entries, auditLock, auditNow, apc, aloc, tampered>>
    /\ AuditFrame

\* get_audit_entry, lines 319-324
get_audit_entry(p) ==
    /\ AuditIdle(p)
    /\ CanRead(auditLock)
    /\ \E id \in 1..MaxEntries :
         aresp' = IF \E i \in 1..Len(entries) : entries[i].id = id
                  THEN [op |-> "get", status |-> 200, body |-> id]
                  ELSE [op |-> "get", status |-> 404, body |-> "Audit entry not found"]
    /\ UNCHANGED <<entries, auditLock, auditNow, apc, aloc, tampered>>
    /\ AuditFrame

\* the filter with the comparison of entity_type left out
entity_trail_any_type(es, entity_type, entity_id) ==
    SelectSeq(es, LAMBDA e : e.entity_id = entity_id)

\* get_entity_audit_trail, lines 331-338
entity_trail(es, entity_type, entity_id) ==
    SelectSeq(es, LAMBDA e : e.entity_type = entity_type /\ e.entity_id = entity_id)

get_entity_audit_trail_call(p, entity_type, entity_id) ==
    /\ AuditIdle(p)
    /\ CanRead(auditLock)
    /\ aresp' = [op |-> "trail", status |-> 200,
                 body |-> Ids(entity_trail(entries, entity_type, entity_id))]
    /\ UNCHANGED <<entries, auditLock, auditNow, apc, aloc, tampered>>
    /\ AuditFrame

get_entity_audit_trail(p) ==
    \E entity_type \in EntityTypes, entity_id \in EntityIds :
        get_entity_audit_trail_call(p, entity_type, entity_id)

\* export_audit_trail, lines 385-411: the read guard is taken before the
\* dates are parsed
export_audit_trail(p) ==
    /\ AuditIdle(p)
    /\ CanRead(auditLock)
    /\ \E from \in TimeInputs, to \in TimeInputs, entity_type \in {None, Some("supplier")} :
         IF parse_time(from) = None
         THEN aresp' = [op |-> "export", status |-> 400, body |-> "Invalid from date"]
         ELSE IF parse_time(to) = None
         THEN aresp' = [op |-> "export", status |-> 400, body |-> "Invalid to date"]
         ELSE aresp' = [op |-> "export", status |-> 200,
                        body |-> Len(SelectSeq(entries, LAMBDA e :
                                    /\ e.timestamp >= parse_time(from)[1]
                                    /\ e.timestamp <= parse_time(to)[1]
                                    /\ matches_opt(entity_type, e.entity_type)))]
    /\ UNCHANGED <<entries, auditLock, auditNow, apc, aloc, tampered>>
    /\ AuditFrame

\* A change made to the persisted log behind the service's back: one field
\* of one entry gets another value, the stored hash stays.
TamperFields == {"details", "entity_id", "timestamp"}
\* the fields of an AuditEntry that calculate_hash does not read
UnhashedFields == {"user_id", "agent_id", "source_document", "previous_hash"}
FieldValues(f) ==
    CASE f = "details" -> DetailValues
      [] f = "entity_id" -> EntityIds
      [] f = "timestamp" -> AuditTimes
      [] f = "user_id" -> {None, Some(7)}
      [] f = "agent_id" -> {None, Some("extractor")}
      [] f = "source_document" -> {None, Some("bom.csv")}
      [] f = "previous_hash" -> {None, Some(<<"forged">>)}

Tamper ==
    /\ tampered = None
    /\ \E i \in 1..Len(entries), f \in TamperFields :
         \E v \in FieldValues(f) :
            /\ v # entries[i][f]
            /\ entries' = [entries EXCEPT ![i][f] = v]
            /\ tampered' = Some([index |-> i, field |-> f])
    /\ UNCHANGED <<auditLock, auditNow, apc, aloc, aresp>>
    /\ AuditFrame

\* The same kind of change, to one of the other fields of an entry
TamperUnhashed ==
    /\ tampered = None
    /\ \E i \in 1..Len(entries), f \in UnhashedFields :
         \E v \in FieldValues(f) :
            /\ v # entries[i][f]
            /\ entries' = [entries EXCEPT ![i][f] = v]
            /\ tampered' = Some([index |-> i, field |-> f])
    /\ UNCHANGED <<auditLock, auditNow, apc, aloc, aresp>>
    /\ AuditFrame

AuditInit ==
    /\ entries = <<>>
    /\ auditLock = Unlocked
    /\ auditNow = 0
    /\ apc = [p \in Procs |-> "idle"]
    /\ aloc = [p \in Procs |-> None]
    /\ tampered = None
    /\ aresp = NoResponse

\* No library function has been called
NoCall == [op |-> "none"]

\* The services after construction
ServiceInit ==
    /\ workflows = <<>>
    /\ tasks = <<>>
    /\ escalations = <<>>
    /\ wfLock = Unlocked
    /\ taskLock = Unlocked
    /\ escLock = Unlocked
    /\ nextWf = 0
    /\ now = 0
    /\ pc = [p \in Procs |-> "idle"]
    /\ req = [p \in Procs |-> NoReq]
    /\ loc = [p \in Procs |-> None]
    /\ res = NoRes
    /\ retries = [t \in TaskIds |-> 0]
    /\ AuditInit

Init ==
    /\ ServiceInit
    /\ call = NoCall

Next ==
    \/ Tick
    \/ \E p \in Procs :
        \/ create_workflow_reject(p)
        \/ create_workflow_tasks(p)
        \/ create_workflow_store(p)
        \/ read_workflows(p)
        \/ list_workflows(p)
        \/ get_workflow(p)
        \/ update_status_invalid(p)
        \/ update_status_begin(p)
        \/ update_status_finish(p)
        \/ get_workflow_tasks(p)
        \/ get_task(p)
        \/ complete_task(p)
        \/ retry_task(p)
        \/ create_escalation(p)
        \/ list_escalations(p)
        \/ resolve_escalation(p)

Spec == Init /\ [][Next]_vars

AuditNext ==
    \/ AuditClock
    \/ Tamper
    \/ \E p \in Procs :
        \/ create_audit_entry_build(p)
        \/ create_audit_entry_push(p)
        \/ verify_chain(p)
        \/ list_audit_entries(p)
        \/ get_audit_entry(p)
        \/ get_entity_audit_trail(p)
        \/ export_audit_trail(p)

AuditSpec == Init /\ [][AuditNext]_vars

\* The audit service with appends, verifications and an out-of-band change
\* of a field outside the hash
AuditFieldsNext ==
    \/ AuditClock
    \/ TamperUnhashed
    \/ \E p \in Procs :
        \/ create_audit_entry_build(p)
        \/ create_audit_entry_push(p)
        \/ verify_chain(p)

AuditFieldsSpec == Init /\ [][AuditFieldsNext]_vars

\* ======================================================================
\* Library functions: the scheduler, the supplier extractor, the CAS
\* validator.  They keep no state: `call` holds the arguments of one call
\* and, once the function has run, its result.
\* ======================================================================
LibFrame == UNCHANGED <<wfVars, auditVars>>

\* ------------------------------------------------------- WorkflowScheduler
MaxFollowUps == 10
MaxFollowUpNumber == 10
DefaultFollowUpIntervalDays == 7
FollowUpBasePriority == 80
FollowUpPriorityStep == 10

\* WorkflowConfig, the two fields the scheduler reads
WorkflowConfigs ==
    [max_follow_ups : 0..MaxFollowUps,
     follow_up_interval_days : {1, DefaultFollowUpIntervalDays}]

\* schedule_follow_up; `at` is the reading of Utc::now(), in days
schedule_follow_up(config, workflow_id, supplier_id, follow_up_number, at) ==
    IF follow_up_number >= config.max_follow_ups
    THEN None
    ELSE LET delay_days ==
                 config.follow_up_interval_days * (follow_up_number + 1)
         IN Some([workflow_id |-> workflow_id,
                  supplier_id |-> supplier_id,
                  task_type |-> "FollowUp",
                  scheduled_at |-> at + delay_days,
                  priority |-> FollowUpBasePriority
                               - (follow_up_number * FollowUpPriorityStep)])

\* the calls of schedule_follow_up that are checked
SchedulerCalls ==
    [op : {"schedule_follow_up"},
     config : WorkflowConfigs,
     workflow_id : {1},
     supplier_id : 1..NumSuppliers,
     follow_up_number : 0..MaxFollowUpNumber,
     at : {0},
     done : {FALSE},
     out : {None}]

SchedulerInit ==
    /\ ServiceInit
    /\ call \in SchedulerCalls

schedule_follow_up_call ==
    /\ call.op = "schedule_follow_up"
    /\ ~call.done
    /\ call' = [call EXCEPT
                  !.done = TRUE,
                  !.out = schedule_follow_up(call.config, call.workflow_id,
                                             call.supplier_id,
                                             call.follow_up_number, call.at)]
    /\ LibFrame

SchedulerNext == schedule_follow_up_call

SchedulerSpec == SchedulerInit /\ [][SchedulerNext]_vars

\* ------------------------------------------------------- SupplierExtractor
\* A string is the sequence of its characters.
MaxRows == 2

UpperCase == <<"A", "B", "C", "D", "E", "F", "G", "H", "I", "J", "K", "L", "M",
               "N", "O", "P", "Q", "R", "S", "T", "U", "V", "W", "X", "Y", "Z">>
LowerCase == <<"a", "b", "c", "d", "e", "f", "g", "h", "i", "j", "k", "l", "m",
               "n", "o", "p", "q", "r", "s", "t", "u", "v", "w", "x", "y", "z">>

\* char::to_lowercase on the characters used
to_lowercase_char(c) ==
    IF \E i \in 1..Len(UpperCase) : UpperCase[i] = c
    THEN LowerCase[CHOOSE i \in 1..Len(UpperCase) : UpperCase[i] = c]
    ELSE c

\* str::to_lowercase, character by character
to_lowercase_chars(str) == [i \in 1..Len(str) |-> to_lowercase_char(str[i])]

\* str::ends_with
ends_with(str, suffix) ==
    /\ Len(str) >= Len(suffix)
    /\ SubSeq(str, Len(str) - Len(suffix) + 1, Len(str)) = suffix

\* char::is_whitespace on the characters used
is_whitespace(c) == c \in {" ", "\t"}

\* str::split_whitespace: the maximal runs of characters that are not
\* whitespace
RECURSIVE split_whitespace_from(_, _, _, _)
split_whitespace_from(str, i, word, words) ==
    IF i > Len(str)
    THEN IF word = <<>> THEN words ELSE Append(words, word)
    ELSE IF is_whitespace(str[i])
         THEN split_whitespace_from(str, i + 1, <<>>,
                  IF word = <<>> THEN words ELSE Append(words, word))
         ELSE split_whitespace_from(str, i + 1, Append(word, str[i]), words)

split_whitespace(str) == split_whitespace_from(str, 1, <<>>, <<>>)

\* [&str]::join
RECURSIVE join(_, _)
join(words, sep) ==
    IF words = <<>> THEN <<>>
    ELSE IF Len(words) = 1 THEN words[1]
    ELSE words[1] \o sep \o join(Tail(words), sep)

\* the suffixes that normalize_supplier_name removes, in its order
CompanySuffixes ==
    << <<" ", "i", "n", "c">>,
       <<" ", "i", "n", "c", ".">>,
       <<" ", "l", "l", "c">>,
       <<" ", "l", "t", "d">>,
       <<" ", "l", "t", "d", ".">>,
       <<" ", "c", "o", "r", "p">>,
       <<" ", "c", "o", "r", "p", ".">>,
       <<" ", "c", "o">>,
       <<" ", "c", "o", ".">> >>

\* the loop over the suffixes: one pass, each suffix tried once
RECURSIVE remove_suffixes(_, _)
remove_suffixes(normalized, i) ==
    IF i > Len(CompanySuffixes) THEN normalized
    ELSE remove_suffixes(
             IF ends_with(normalized, CompanySuffixes[i])
             THEN SubSeq(normalized, 1,
                         Len(normalized) - Len(CompanySuffixes[i]))
             ELSE normalized,
             i + 1)

\* normalize_supplier_name: lowercase, then the suffixes, then the whitespace
normalize_supplier_name(name) ==
    join(split_whitespace(remove_suffixes(to_lowercase_chars(name), 1)), <<" ">>)

\* extract_component: none for a row without part number
extract_component(row) ==
    IF row.part_number = None THEN None
    ELSE Some([part_number |-> row.part_number[1],
               source_row |-> row.row_number])

\* the branch of extract for a row whose key is already in the map
merge_row(existing, row) ==
    LET component == extract_component(row)
    IN [existing EXCEPT
          !.source_rows = Append(@, row.row_number),
          !.components = IF component # None THEN Append(@, component[1])
                         ELSE @,
          !.email = IF @ = None /\ row.supplier_email # None
                    THEN row.supplier_email ELSE @,
          !.contact_person = IF @ = None /\ row.contact_person # None
                             THEN row.contact_person ELSE @]

\* the branch of extract for a row with a new key
new_supplier(self, row) ==
    LET missing_fields ==
            (IF self.require_email /\ row.supplier_email = None
             THEN <<"email">> ELSE <<>>)
            \o (IF self.require_contact /\ row.contact_person = None
                THEN <<"contact_person">> ELSE <<>>)
        component == extract_component(row)
    IN [name |-> row.supplier_name[1],
        email |-> row.supplier_email,
        contact_person |-> row.contact_person,
        components |-> IF component # None THEN <<component[1]>> ELSE <<>>,
        source_rows |-> <<row.row_number>>,
        is_complete |-> missing_fields = <<>>,
        missing_fields |-> missing_fields]

\* the loop of extract over the rows from row i on
RECURSIVE extract_rows(_, _, _, _)
extract_rows(self, rows, i, acc) ==
    IF i > Len(rows) THEN acc
    ELSE LET row == rows[i]
         IN IF row.supplier_name = None \/ row.supplier_name = Some(<<>>)
            THEN extract_rows(self, rows, i + 1,
                     [acc EXCEPT !.warnings = Append(@, row.row_number)])
            ELSE LET normalized_name ==
                         normalize_supplier_name(row.supplier_name[1])
                 IN IF normalized_name \in DOMAIN acc.supplier_map
                    THEN extract_rows(self, rows, i + 1,
                             [acc EXCEPT
                                !.duplicate_count = @ + 1,
                                !.supplier_map[normalized_name] =
                                    merge_row(@, row)])
                    ELSE extract_rows(self, rows, i + 1,
                             [acc EXCEPT
                                !.supplier_map =
                                    Upd(@, normalized_name,
                                        new_supplier(self, row))])

\* extract; HashMap::into_values gives the suppliers in no defined order, so
\* the result keeps them as a set
extract(self, bom) ==
    LET acc == extract_rows(self, bom.rows, 1,
                   [supplier_map |-> <<>>, warnings |-> <<>>,
                    duplicate_count |-> 0])
        suppliers == {acc.supplier_map[k] : k \in DOMAIN acc.supplier_map}
        complete_count == Cardinality({x \in suppliers : x.is_complete})
    IN [suppliers |-> suppliers,
        complete_count |-> complete_count,
        incomplete_count |-> Cardinality(suppliers) - complete_count,
        duplicate_count |-> acc.duplicate_count,
        warnings |-> acc.warnings]

\* supplier names as the parser delivers them: trimmed and not empty
Acme == <<"A", "c", "m", "e">>
SupplierNames ==
    {Acme,
     Acme \o <<" ", "C", "o", "r", "p">>,
     <<"A", "C", "M", "E", " ", "C", "O", "R", "P">>,
     Acme \o <<" ", " ", "I", "n", "c", ".">>,
     Acme \o <<"\t", "C", "o", "r", "p">>,
     <<"B", "o", "l", "t", " ", "L", "L", "C">>}

\* BomRow, the fields extract reads; the parser numbers the data rows from 2
BomRows(i) ==
    [row_number : {i + 1},
     supplier_name : {None} \cup {Some(n) : n \in SupplierNames},
     supplier_email : {None, Some("acme@example.com")},
     contact_person : {None, Some("John")},
     part_number : {None, Some("PN")}]

ParsedBoms ==
    UNION {{[rows |-> r] :
              r \in {f \in [1..n -> UNION {BomRows(i) : i \in 1..n}] :
                        \A i \in 1..n : f[i].row_number = i + 1}} :
           n \in 0..MaxRows}

\* SupplierExtractor::new with the two builder options
SupplierExtractors == [require_email : BOOLEAN, require_contact : BOOLEAN]

ExtractCalls ==
    [op : {"extract"}, self : SupplierExtractors, bom : ParsedBoms,
     done : {FALSE}, out : {None}]

ExtractInit ==
    /\ ServiceInit
    /\ call \in ExtractCalls

extract_call ==
    /\ call.op = "extract"
    /\ ~call.done
    /\ call' = [call EXCEPT !.done = TRUE,
                            !.out = Some(extract(call.self, call.bom))]
    /\ LibFrame

ExtractNext == extract_call

ExtractSpec == ExtractInit /\ [][ExtractNext]_vars

\* ---------------------------------------------------------- ChemicalService
MaxFirstGroup == 8
MaxSecondGroup == 3

AsciiDigits == <<"0", "1", "2", "3", "4", "5", "6", "7", "8", "9">>
IsAsciiDigit(c) == \E i \in 1..Len(AsciiDigits) : AsciiDigits[i] = c

\* a decimal digit outside ASCII (ARABIC-INDIC DIGIT THREE): numeric for
\* char::is_numeric, two bytes in UTF-8, no digit for char::to_digit
ArabicThree == "U+0663"

\* char::is_numeric on the characters used
is_numeric(c) == IsAsciiDigit(c) \/ c = ArabicThree

\* char::to_digit(10)
to_digit(c) ==
    IF IsAsciiDigit(c)
    THEN Some((CHOOSE i \in 1..Len(AsciiDigits) : AsciiDigits[i] = c) - 1)
    ELSE None

\* str::len: the length in bytes
RECURSIVE len(_)
len(str) ==
    IF str = <<>> THEN 0
    ELSE (IF Head(str) = ArabicThree THEN 2 ELSE 1) + len(Tail(str))

\* str::split('-'): one part more than there are hyphens, empty parts kept
RECURSIVE split_from(_, _, _, _)
split_from(str, i, part, parts) ==
    IF i > Len(str) THEN Append(parts, part)
    ELSE IF str[i] = "-"
         THEN split_from(str, i + 1, <<>>, Append(parts, part))
         ELSE split_from(str, i + 1, Append(part, str[i]), parts)

split(str) == split_from(str, 1, <<>>, <<>>)

\* str::parse::<u32> on the strings normalize_cas can leave: digits and
\* hyphens.  The strings of this model are too short to exceed u32.
RECURSIVE parse_digits(_, _)
parse_digits(str, acc) ==
    IF str = <<>> THEN acc
    ELSE parse_digits(Tail(str), acc * 10 + to_digit(Head(str))[1])

parse(str) ==
    IF str # <<>> /\ \A i \in 1..Len(str) : IsAsciiDigit(str[i])
    THEN Some(parse_digits(str, 0))
    ELSE None

\* normalize_cas: keeps the numeric characters and the hyphens
normalize_cas(cas) == SelectSeq(cas, LAMBDA c : is_numeric(c) \/ c = "-")

\* .chars().rev().enumerate().filter_map(to_digit * (i + 1)).sum(), where i
\* counts from 0 at the last character
RECURSIVE weighted_sum(_, _)
weighted_sum(digits, i) ==
    IF i >= Len(digits) THEN 0
    ELSE LET d == to_digit(digits[Len(digits) - i])
         IN (IF d # None THEN d[1] * (i + 1) ELSE 0)
            + weighted_sum(digits, i + 1)

\* the same with the positions counted from the first character
verify_cas_checksum_from_left(cas) ==
    LET parts == split(cas)
    IN IF Len(parts) # 3 THEN FALSE
       ELSE IF parse(parts[3]) = None THEN FALSE
       ELSE LET digits == parts[1] \o parts[2]
                Rev == [k \in 1..Len(digits) |-> digits[Len(digits) + 1 - k]]
            IN weighted_sum(Rev, 0) % 10 = parse(parts[3])[1]

\* verify_cas_checksum
verify_cas_checksum(cas) ==
    LET parts == split(cas)
    IN IF Len(parts) # 3 THEN FALSE
       ELSE IF parse(parts[3]) = None THEN FALSE
       ELSE LET digits == parts[1] \o parts[2]
            IN weighted_sum(digits, 0) % 10 = parse(parts[3])[1]

AllNumeric(part) == \A i \in 1..Len(part) : is_numeric(part[i])

\* validate_cas
validate_cas(cas_number) ==
    LET normalized == normalize_cas(cas_number)
        parts == split(normalized)
        p1_valid == len(parts[1]) \in 2..7 /\ AllNumeric(parts[1])
        p2_valid == len(parts[2]) = 2 /\ AllNumeric(parts[2])
        p3_valid == len(parts[3]) = 1 /\ AllNumeric(parts[3])
        format_valid ==
            IF Len(parts) # 3 THEN FALSE
            ELSE p1_valid /\ p2_valid /\ p3_valid
        format_errors ==
            IF Len(parts) # 3
            THEN <<"Invalid format: expected XXX-XX-X">>
            ELSE (IF ~p1_valid THEN <<"First segment should be 2-7 digits">>
                  ELSE <<>>)
                 \o (IF ~p2_valid THEN <<"Second segment should be 2 digits">>
                     ELSE <<>>)
                 \o (IF ~p3_valid
                     THEN <<"Third segment should be 1 digit (check digit)">>
                     ELSE <<>>)
        checksum_valid ==
            IF format_valid THEN verify_cas_checksum(normalized) ELSE FALSE
    IN [is_valid |-> format_valid /\ checksum_valid,
        format_valid |-> format_valid,
        checksum_valid |-> checksum_valid,
        normalized |-> normalized,
        errors |-> format_errors
                   \o (IF format_valid /\ ~checksum_valid
                       THEN <<"Check digit verification failed">>
                       ELSE <<>>)]

\* the strings over an alphabet with lengths from lo to hi
Strings(alphabet, lo, hi) == UNION {[1..n -> alphabet] : n \in lo..hi}

\* the CAS numbers of the unit tests and of the documentation
KnownCas ==
    {<<"7", "7", "3", "2", "-", "1", "8", "-", "5">>,
     <<"7", "6", "4", "7", "-", "1", "4", "-", "5">>,
     <<"5", "0", "-", "0", "0", "-", "0">>,
     <<"3", "3", "5", "-", "6", "7", "-", "1">>,
     <<"7", "7", "3", "2", "-", "1", "8", "-", "6">>}

\* inputs of three digit groups: every length of the first group from 1 to
\* one above the largest allowed, every check digit
ThreeGroupInputs ==
    {g1 \o <<"-">> \o g2 \o <<"-">> \o g3 :
        g1 \in Strings({"3", "7"}, 1, MaxFirstGroup),
        g2 \in Strings({"1", "8"}, 1, MaxSecondGroup),
        g3 \in Strings({AsciiDigits[i] : i \in 1..Len(AsciiDigits)}, 1, 1)
               \cup Strings({"0", "5"}, 2, 2)}

\* inputs of one to four groups with empty groups, letters and the numeric
\* character outside ASCII
OtherGroups ==
    {<<>>, <<"5">>, <<"x">>, <<ArabicThree>>, <<"7", "7">>, <<"1", "x", "8">>}

OtherInputs ==
    OtherGroups
    \cup {a \o <<"-">> \o b : a \in OtherGroups, b \in OtherGroups}
    \cup {a \o <<"-">> \o b \o <<"-">> \o c :
             a \in OtherGroups, b \in OtherGroups, c \in OtherGroups}
    \cup {a \o <<"-">> \o b \o <<"-">> \o c \o <<"-">> \o d :
             a \in OtherGroups, b \in OtherGroups, c \in OtherGroups,
             d \in {<<>>, <<"5">>}}

CasCalls ==
    [op : {"validate_cas"},
     cas_number : KnownCas \cup ThreeGroupInputs \cup OtherInputs,
     done : {FALSE}, out : {None}]

CasInit ==
    /\ ServiceInit
    /\ call \in CasCalls

validate_cas_call ==
    /\ call.op = "validate_cas"
    /\ ~call.done
    /\ call' = [call EXCEPT !.done = TRUE,
                            !.out = Some(validate_cas(call.cas_number))]
    /\ LibFrame

CasNext == validate_cas_call

CasSpec == CasInit /\ [][CasNext]_vars

\* ======================================================================
\* Properties
\* ======================================================================
AllIdle == \A p \in Procs : pc[p] = "idle"
HoldsNoLock(p) ==
    /\ wfLock.w # p /\ p \notin wfLock.r
    /\ taskLock.w # p /\ p \notin taskLock.r
    /\ escLock.w # p /\ p \notin escLock.r

\* The steps that continue a call already started.  The runtime polls every
\* ready future and the tokio RwLock serves its waiters in order, so a
\* continuation that can be taken again and again is taken.
Continue(p) ==
    \/ create_workflow_store(p)
    \/ list_workflows(p)
    \/ get_workflow(p)
    \/ update_status_finish(p)
    \/ (pc[p] # "idle" /\ complete_task(p))
    \/ create_escalation(p)

FairSpec == Spec /\ \A p \in Procs : SF_vars(Continue(p))

\* C1: every call of an engine operation eventually returns and has then
\* released every lock it acquired; no caller waits forever on a lock.
C1_EveryCallReturns ==
    \A p \in Procs : (pc[p] # "idle") ~> (pc[p] = "idle" /\ HoldsNoLock(p))

\* C2: once a campaign's stored state is Completed, Cancelled or Failed, no
\* step of any operation changes that campaign's state.
C2_TerminalStateFrozen ==
    [][\A id \in DOMAIN workflows :
          workflows[id].state \in {"Completed", "Cancelled", "Failed"}
          => /\ id \in DOMAIN workflows'
             /\ workflows'[id].state = workflows[id].state]_vars

\* a cancelled campaign on which a later update_status was refused
C2_Witness ==
    /\ AllIdle
    /\ \E id \in DOMAIN workflows : workflows[id].state = "Cancelled"
    /\ res = "Invalid state transition"

AllowedPairs ==
    {<<"Pending", "Active">>, <<"Pending", "Cancelled">>,
     <<"Active", "Paused">>, <<"Active", "Completed">>,
     <<"Active", "Cancelled">>, <<"Active", "Failed">>,
     <<"Paused", "Active">>, <<"Paused", "Cancelled">>}

\* C3: update_status(id, s) on an existing campaign in state c is accepted
\* exactly when (c, s) is one of the eight allowed pairs; when accepted the
\* stored state is s, also at the return; when refused the error is the
\* invalid-transition one and the stored campaigns are unchanged.
C3_UpdateStatusTable ==
    [][/\ \A p \in Procs, r \in StatusCalls :
            (r.op = "update_status" /\ update_status_call(p, r)
               /\ r.id \in DOMAIN workflows)
            => LET c == workflows[r.id].state
                   s == from_str(r.status)[1]
               IN IF <<c, s>> \in AllowedPairs
                  THEN /\ workflows'[r.id].state = s
                       /\ pc'[p] = "us_tasks"
                       /\ res' = res
                  ELSE /\ workflows' = workflows
                       /\ pc'[p] = "idle"
                       /\ res' = "Invalid state transition"
       /\ \A p \in Procs :
            (update_status_finish(p) /\ req[p].op = "update_status")
            => /\ res' = "ok"
               /\ workflows' = workflows
               /\ workflows[req[p].id].state = from_str(req[p].status)[1]]_vars

\* a campaign paused by an accepted update_status, then a refused one
C3_Witness ==
    /\ AllIdle
    /\ \E id \in DOMAIN workflows : workflows[id].state = "Paused"
    /\ res = "Invalid state transition"

\* C4: when no call is in progress, a campaign that has at least one task and
\* only tasks in a terminal state is not Active any more (it has been moved
\* to Completed).
C4_AllTerminalCompletes ==
    \A id \in DOMAIN workflows :
        (/\ AllIdle
         /\ TasksOf(tasks, id) # {}
         /\ \A t \in TasksOf(tasks, id) :
               tasks[t].state \in {"Completed", "Exhausted", "Skipped", "Cancelled"})
        => workflows[id].state # "Active"

\* C5: when cancel_workflow returns successfully, the campaign is Cancelled
\* and none of its tasks is left in a non-terminal state.
C5_CancelCancelsTasks ==
    [][\A p \in Procs :
          (update_status_finish(p) /\ req[p].op = "cancel_workflow")
          => /\ workflows'[req[p].id].state = "Cancelled"
             /\ \A t \in TasksOf(tasks', req[p].id) :
                   tasks'[t].state \in {"Completed", "Exhausted", "Skipped",
                                        "Cancelled"}]_vars

\* C9: retry_task on a task whose state is not Failed returns an error and
\* changes neither the tasks nor the escalations.
C9_RetryOnlyWhenFailed ==
    [][\A p \in Procs, id \in TaskIds :
          (retry_task_call(p, id) /\ id \in DOMAIN tasks
             /\ tasks[id].state # "Failed")
          => /\ pc'[p] = "idle"
             /\ res' # "ok"
             /\ tasks' = tasks
             /\ escalations' = escalations]_vars

\* C10: retry_task below the retry limit adds one to retry_count, reschedules
\* the task at the current time, clears its error and creates no escalation;
\* at the limit it marks the task Exhausted with retry_count as it was and
\* then creates exactly one escalation, of severity high and reason "Max
\* retries exceeded", for the task's campaign and supplier.
C10_RetryTask ==
    [][\A p \in Procs :
        /\ \A id \in TaskIds :
             (retry_task_call(p, id) /\ id \in DOMAIN tasks)
             => /\ DOMAIN tasks' = DOMAIN tasks
                /\ \A o \in DOMAIN tasks \ {id} : tasks'[o] = tasks[o]
                /\ escalations' = escalations
                /\ IF tasks[id].retry_count < tasks[id].max_retries
                   THEN /\ tasks'[id].retry_count = tasks[id].retry_count + 1
                        /\ tasks'[id].state = "Scheduled"
                        /\ tasks'[id].scheduled_at = <<now>>
                        /\ tasks'[id].error = <<>>
                        /\ pc'[p] = "idle"
                        /\ res' = "ok"
                   ELSE /\ tasks'[id].retry_count = tasks[id].retry_count
                        /\ tasks'[id].state = "Exhausted"
                        /\ pc'[p] = "ce_escalations"
                        /\ req'[p].id = id
        /\ create_escalation(p)
             => LET task == tasks[req[p].id]
                    new == DOMAIN escalations' \ DOMAIN escalations
                IN /\ Cardinality(new) = 1
                   /\ \A e \in new :
                        /\ escalations'[e].severity = "high"
                        /\ escalations'[e].reason = "Max retries exceeded"
                        /\ escalations'[e].workflow_id = task.workflow_id
                        /\ escalations'[e].supplier_id = task.supplier_id
                   /\ \A e \in DOMAIN escalations : escalations'[e] = escalations[e]
                   /\ tasks' = tasks
                   /\ pc'[p] = "idle"
                   /\ res' = "ok"]_vars

\* a task that was rescheduled up to its limit, then exhausted and escalated
C10_Witness ==
    /\ AllIdle
    /\ \E t \in DOMAIN tasks :
         /\ tasks[t].state = "Exhausted"
         /\ tasks[t].retry_count = DefaultMaxRetries
         /\ \E e \in DOMAIN escalations :
               escalations[e].supplier_id = tasks[t].supplier_id

\* the escalations of severity high whose reason contains "Max retries",
\* raised for a supplier
MaxRetriesEscalations(escs, supplier_id) ==
    {e \in DOMAIN escs : /\ escs[e].supplier_id = supplier_id
                         /\ escs[e].severity = "high"
                         /\ escs[e].reason = "Max retries exceeded"}

TaskAllowedPairs ==
    {<<"Scheduled", "Running">>, <<"Scheduled", "Skipped">>,
     <<"Scheduled", "Cancelled">>, <<"Running", "Completed">>,
     <<"Running", "Failed">>, <<"Running", "Cancelled">>,
     <<"Failed", "Running">>, <<"Failed", "Exhausted">>,
     <<"Failed", "Cancelled">>}

\* C12: every step that changes a task's state takes it from a to b with
\* (a, b) in the task transition table; so a terminal task state is never left.
C12_TaskTransitionTable ==
    [][\A t \in DOMAIN tasks :
          (t \in DOMAIN tasks' /\ tasks'[t].state # tasks[t].state)
          => <<tasks[t].state, tasks'[t].state>> \in TaskAllowedPairs]_vars

\* C13: while a task's campaign is stored in a terminal state, no step changes
\* the task (state, retry_count, timestamps, result) and any call that would
\* have changed it returns an error.
C13_TerminalCampaignFreezesTasks ==
    [][\A t \in DOMAIN tasks :
          (/\ tasks[t].workflow_id \in DOMAIN workflows
           /\ workflows[tasks[t].workflow_id].state
                \in {"Completed", "Cancelled", "Failed"})
          => /\ t \in DOMAIN tasks'
             /\ tasks'[t] = tasks[t]
             /\ \A p \in Procs :
                  (retry_task_call(p, t) \/ (Idle(p) /\ complete_task(p)
                                               /\ req'[p].id = t))
                  => (pc'[p] = "idle" /\ res' # "ok")]_vars

HasDuplicate(s) == \E i, j \in 1..Len(s) : i # j /\ s[i] = s[j]

\* C14: create_workflow stores no campaign from a request whose supplier list
\* is empty or names a supplier twice: every stored campaign has a non-empty
\* supplier list without duplicates.
C14_CreateValidates ==
    \A id \in DOMAIN workflows :
        /\ Len(workflows[id].suppliers) > 0
        /\ ~HasDuplicate(workflows[id].suppliers)

\* C15: the step of create_workflow that stores the tasks of a request with N
\* suppliers adds exactly N tasks, the i-th (0-based, in the order of the
\* supplier list) an InitialOutreach task of the i-th supplier in state
\* Scheduled with retry_count 0, scheduled i*2 minutes after the instant t of
\* the creation, and leaves the other tasks alone; the step that completes the
\* call stores exactly one more campaign, in state Active, and returns ok.
C15_StaggeredOutreach ==
    [][\A p \in Procs :
        /\ (pc[p] = "idle" /\ pc'[p] = "cw_workflows")
           => LET workflow == loc'[p][1]
                  N == Len(workflow.suppliers)
                  new == DOMAIN tasks' \ DOMAIN tasks
                  base == Cardinality(DOMAIN tasks)
              IN /\ Cardinality(new) = N
                 /\ new = {base + k : k \in 1..N}
                 /\ \A i \in 0..(N - 1) :
                      LET task == tasks'[base + i + 1] IN
                      /\ task.workflow_id = workflow.id
                      /\ task.supplier_id = workflow.suppliers[i + 1]
                      /\ task.task_type = "InitialOutreach"
                      /\ task.state = "Scheduled"
                      /\ task.retry_count = 0
                      /\ task.scheduled_at = <<now + i * 2>>
                 /\ \A i \in 1..(N - 1) :
                      tasks'[base + i + 1].scheduled_at[1]
                        - tasks'[base + i].scheduled_at[1] = 2
                 /\ \A t \in DOMAIN tasks : tasks'[t] = tasks[t]
                 /\ workflow.id \notin DOMAIN workflows
                 /\ workflow.state = "Active"
        /\ (pc[p] = "cw_workflows" /\ pc'[p] = "idle")
           => LET workflow == loc[p][1] IN
              /\ DOMAIN workflows' = DOMAIN workflows \cup {workflow.id}
              /\ workflow.id \notin DOMAIN workflows
              /\ workflows'[workflow.id].state = "Active"
              /\ workflows'[workflow.id].suppliers = workflow.suppliers
              /\ Cardinality(TasksOf(tasks', workflow.id)) = Len(workflow.suppliers)
              /\ \A t \in TasksOf(tasks', workflow.id) :
                    tasks'[t].task_type = "InitialOutreach"
              /\ res' = "ok"]_vars

\* a stored campaign of two suppliers whose untouched tasks are 2 minutes apart
C15_Witness ==
    /\ AllIdle
    /\ \E id \in DOMAIN workflows :
         /\ workflows[id].state = "Active"
         /\ Len(workflows[id].suppliers) = 2
         /\ \E t, u \in TasksOf(tasks, id) :
              /\ tasks[t].supplier_id = workflows[id].suppliers[1]
              /\ tasks[u].supplier_id = workflows[id].suppliers[2]
              /\ tasks[t].retry_count = 0 /\ tasks[u].retry_count = 0
              /\ tasks[t].state = "Scheduled" /\ tasks[u].state = "Scheduled"
              /\ tasks[u].scheduled_at[1] = tasks[t].scheduled_at[1] + 2

\* what update_workflow_progress computes for a campaign from the tasks
Recomputed(wfs, tks, id) == apply_progress(wfs, id, progress_counts(tks, id))[id]

ProgressConsistent(g, total) ==
    /\ g.total_suppliers = total
    /\ g.complete >= 0 /\ g.complete <= total
    /\ g.contacted >= 0 /\ g.contacted <= total
    /\ g.responded >= 0 /\ g.responded <= total
    /\ g.escalated >= 0 /\ g.escalated <= total
    /\ g.percent_complete = IF total > 0 THEN (100 * 1000 * g.complete) \div total
                            ELSE 0
    /\ g.percent_complete >= 0 /\ g.percent_complete <= 100 * 1000

\* C17: in every reachable state the stored progress of every campaign is
\* consistent (counts at most the total, percent_complete = 100*complete/total
\* or 0 when the total is 0, hence within [0,100]), and so is the progress that
\* update_workflow_progress computes for it from the stored tasks.
C17_ProgressConsistent ==
    \A id \in DOMAIN workflows :
        /\ ProgressConsistent(workflows[id].progress, Len(workflows[id].suppliers))
        /\ ProgressConsistent(Recomputed(workflows, tasks, id).progress,
                              Len(workflows[id].suppliers))

\* a stored campaign of two suppliers, one of whose two tasks is Completed:
\* the stored progress is the initial one, the recomputed one is 50 percent
C17_Witness ==
    \E id \in DOMAIN workflows :
        /\ workflows[id].progress.total_suppliers = 2
        /\ workflows[id].progress.percent_complete = 0
        /\ Recomputed(workflows, tasks, id).progress.complete = 1
        /\ Recomputed(workflows, tasks, id).progress.percent_complete = 50 * 1000

\* C18: in every reachable state every task has 0 <= retry_count <=
\* max_retries, also after retry_task was called again on an Exhausted task.
C18_RetryCountBounded ==
    \A t \in DOMAIN tasks :
        /\ tasks[t].max_retries >= 0
        /\ tasks[t].retry_count >= 0
        /\ tasks[t].retry_count <= tasks[t].max_retries

\* a task on which retry_task was called once more after it became Exhausted
C18_Witness ==
    /\ AllIdle
    /\ \E t \in DOMAIN tasks :
         /\ retries[t] = tasks[t].max_retries + 2
         /\ tasks[t].state = "Exhausted"
         /\ tasks[t].retry_count = tasks[t].max_retries

\* C22: the step on which a create_workflow succeeds leaves a CampaignCreated
\* entry for the new campaign in the audit log, and every retry_task call
\* adds an entry to the audit log by the time it returns.
C22_Journaled ==
    [][\A p \in Procs :
        /\ (pc[p] = "cw_workflows" /\ pc'[p] = "idle")
           => \E i \in 1..Len(entries') :
                 /\ entries'[i].entity_type = "campaign"
                 /\ entries'[i].entity_id = loc[p][1].id
        /\ ((retries' # retries /\ pc'[p] = "idle" /\ pc[p] = "idle")
            \/ (pc[p] = "ce_escalations" /\ pc'[p] = "idle"))
           => Len(entries') > Len(entries)]_vars

\* C23: no step of a retry_task call, in its rescheduling branch or in its
\* Exhausted branch with the escalation it creates, changes the stored
\* campaigns (state and progress counters).
C23_RetryLeavesCampaigns ==
    [][(\/ retries' # retries
        \/ \E p \in Procs : pc[p] = "ce_escalations" /\ pc'[p] = "idle")
       => workflows' = workflows]_vars

\* a campaign still Active with one task Exhausted by retry_task and another
\* task outstanding
C23_Witness ==
    /\ AllIdle
    /\ \E id \in DOMAIN workflows :
         /\ workflows[id].state = "Active"
         /\ workflows[id].progress.escalated = 0
         /\ \E t, u \in TasksOf(tasks, id) :
              /\ tasks[t].state = "Exhausted"
              /\ retries[t] = tasks[t].max_retries + 1
              /\ tasks[u].state = "Scheduled"
         /\ \E e \in DOMAIN escalations : escalations[e].workflow_id = id

\* C29: whenever the tasks and the campaigns can be read, every stored task's
\* workflow_id is the id of a stored campaign.
C29_TasksReferToStoredCampaign ==
    (CanRead(taskLock) /\ CanRead(wfLock))
    => \A t \in DOMAIN tasks : tasks[t].workflow_id \in DOMAIN workflows

\* ------------------------------------------------------------------ audit log
FullRange == verify_range(entries, 0, AuditMaxTime)

\* C6: in a log built by appends alone, the first entry has no previous hash,
\* every later entry's previous hash is the stored hash of the entry before
\* it, no two entries have the same predecessor, and verifying the whole log
\* finds no broken link and counts every appended entry.
C6_AppendChain ==
    tampered = None =>
        /\ Len(entries) >= 1 => entries[1].previous_hash = <<>>
        /\ \A i \in 2..Len(entries) :
              entries[i].previous_hash = <<entries[i - 1].hash>>
        /\ \A i, j \in 1..Len(entries) :
              i # j => entries[i].previous_hash # entries[j].previous_hash
        /\ FullRange.broken_links = <<>>
        /\ FullRange.is_valid
        /\ FullRange.entries_verified = Len(entries)

\* three appends, then a verification of the whole log that found it valid
C6_Witness ==
    /\ tampered = None
    /\ Len(entries) = 3
    /\ aresp.op = "verify"
    /\ aresp.status = 200
    /\ aresp.from = to_rfc3339(0) /\ aresp.to = to_rfc3339(AuditMaxTime)
    /\ aresp.body.entries_verified = 3
    /\ aresp.body.broken_links = <<>>

\* C7: after one entry's details, entity_id or timestamp was changed out of
\* band, every verification whose range covers that entry is invalid and
\* reports that entry's id and no other.
C7_TamperDetectedExactly ==
    tampered # None =>
        LET e == entries[tampered[1].index] IN
        \A from \in AuditTimes, to \in AuditTimes :
            (from <= e.timestamp /\ e.timestamp <= to)
            => /\ ~verify_range(entries, from, to).is_valid
               /\ verify_range(entries, from, to).broken_links = <<e.id>>

\* C8: the log is append-only: any step of the service leaves the entries as
\* they are or adds exactly one entry at the tail, the earlier entries keeping
\* every field and their order; a step in which a read handler (get, list,
\* entity trail, verify, export) answers leaves the entries as they are; the
\* step that completes an append adds the built entry at the tail.
C8_AppendOnly ==
    [][/\ tampered' = tampered
          => \/ entries' = entries
             \/ /\ Len(entries') = Len(entries) + 1
                /\ SubSeq(entries', 1, Len(entries)) = entries
       /\ (tampered' = tampered /\ aresp' # aresp) => entries' = entries
       /\ \A p \in Procs :
            (apc[p] = "push" /\ apc'[p] = "idle")
            => /\ Len(entries') = Len(entries) + 1
               /\ SubSeq(entries', 1, Len(entries)) = entries
               /\ entries'[Len(entries')] = aloc[p][1]]_vars

\* a log of several entries that a read handler has answered from
C8_Witness ==
    /\ tampered = None
    /\ Len(entries) >= 2
    /\ aresp.op \in {"verify", "list", "get", "trail", "export"}
    /\ aresp.status = 200

\* C19: whatever appends are in flight, every entry a reader can see is
\* complete: its hash is set and is the hash of its fields and of its
\* previous_hash; and a verification of the whole untampered log that was
\* answered reported no broken link.
C19_NoPartialEntry ==
    tampered = None =>
        /\ \A i \in 1..Len(entries) :
              /\ entries[i].hash # <<>>
              /\ entries[i].hash = calculate_hash(entries[i], entries[i].previous_hash)
        /\ (/\ aresp.op = "verify"
            /\ aresp.status = 200
            /\ aresp.from = to_rfc3339(0) /\ aresp.to = to_rfc3339(AuditMaxTime))
           => (aresp.body.is_valid /\ aresp.body.broken_links = <<>>)

\* an append in flight (built, not yet pushed) after a verification of the
\* whole log, which already held an entry, was answered
C19_Witness ==
    /\ tampered = None
    /\ \E p \in Procs : apc[p] = "push"
    /\ Len(entries) >= 1
    /\ aresp.op = "verify"
    /\ aresp.status = 200
    /\ aresp.from = to_rfc3339(0) /\ aresp.to = to_rfc3339(AuditMaxTime)
    /\ aresp.body.entries_verified = Len(entries)

\* the positions in the log of the entries of an entity
Matching(entity_type, entity_id) ==
    {i \in 1..Len(entries) : /\ entries[i].entity_type = entity_type
                             /\ entries[i].entity_id = entity_id}

\* C20: the answer of entity_trail(entity_type, entity_id) on the log as
\* appended holds the ids of exactly the entries whose entity_type and
\* entity_id both match, each once, in ascending order of timestamp.
C20_EntityTrail ==
    [][\A p \in Procs, entity_type \in EntityTypes, entity_id \in EntityIds :
          (tampered = None /\ get_entity_audit_trail_call(p, entity_type, entity_id))
          => LET body == aresp'.body
                 at(id) == CHOOSE i \in 1..Len(entries) : entries[i].id = id
             IN /\ aresp'.status = 200
                /\ {body[k] : k \in 1..Len(body)}
                     = {entries[i].id : i \in Matching(entity_type, entity_id)}
                /\ Len(body) = Cardinality(Matching(entity_type, entity_id))
                /\ \A k, l \in 1..Len(body) :
                      k < l => entries[at(body[k])].timestamp
                                 <= entries[at(body[l])].timestamp]_vars

\* a trail of two entries answered from a log that also holds another entity's
C20_Witness ==
    /\ tampered = None
    /\ aresp.op = "trail"
    /\ Len(aresp.body) = 2
    /\ Len(entries) = 3
    /\ entries[1].timestamp < entries[3].timestamp

\* C21: after one of user_id, agent_id, source_document or previous_hash of a
\* persisted entry was changed out of band, a verification whose range covers
\* the entry (here the whole log) reports the entry in broken_links.
C21_HashCoversAllFields ==
    (tampered # None /\ tampered[1].field \in UnhashedFields)
    => LET e == entries[tampered[1].index]
           r == verify_range(entries, 0, AuditMaxTime)
       IN /\ ~r.is_valid
          /\ \E k \in 1..Len(r.broken_links) : r.broken_links[k] = e.id

\* C28: for a log produced by appends alone, the verification of every range
\* [from, to] is valid and reports no broken link, also when the first entry
\* of the range is not the first entry of the log.
C28_EveryRangeValid ==
    tampered = None
    => \A from \in AuditTimes, to \in AuditTimes :
          /\ verify_range(entries, from, to).is_valid
          /\ verify_range(entries, from, to).broken_links = <<>>

\* C30: the list operation never fails: every answer of list_audit_entries is
\* a page (status 200) whose total is at least the number of entries returned.
C30_ListNeverPanics ==
    aresp.op = "list"
    => /\ aresp.status = 200
       /\ Len(aresp.body.entries) <= aresp.body.total

\* ------------------------------------------------------------------ scheduler
Max(a, b) == IF a >= b THEN a ELSE b

\* C24: schedule_follow_up with k follow-ups already emitted returns no task
\* when k >= max_follow_ups, and otherwise one FollowUp task scheduled
\* (k+1) * follow_up_interval_days days from now with priority
\* max(10, 80 - 10k), which lies in [10, 80] and so in [0, 100].
C24_FollowUp ==
    (call.op = "schedule_follow_up" /\ call.done)
    => LET k == call.follow_up_number
           c == call.config
       IN IF k >= c.max_follow_ups
          THEN call.out = None
          ELSE /\ call.out # None
               /\ call.out[1].task_type = "FollowUp"
               /\ call.out[1].scheduled_at
                    = call.at + (k + 1) * c.follow_up_interval_days
               /\ call.out[1].priority = Max(10, 80 - 10 * k)
               /\ call.out[1].priority \in 10..80
               /\ call.out[1].priority \in 0..100


\* ------------------------------------------------------------------ extractor
\* the required fields that a returned supplier lacks
MissingOn(self, supplier) ==
    {f \in {"email", "contact_person"} :
        \/ f = "email" /\ self.require_email /\ supplier.email = None
        \/ f = "contact_person" /\ self.require_contact
                                /\ supplier.contact_person = None}

\* C25: every supplier of an extraction result is complete exactly when it
\* lacks none of the configured required fields, as returned, and its
\* missing_fields are exactly the required fields it lacks; also when the
\* email or the contact person came from a later merged row.
C25_CompleteIffNothingMissing ==
    (call.op = "extract" /\ call.done)
    => \A supplier \in call.out[1].suppliers :
          /\ supplier.is_complete <=> MissingOn(call.self, supplier) = {}
          /\ {supplier.missing_fields[k] :
                 k \in 1..Len(supplier.missing_fields)}
                = MissingOn(call.self, supplier)


\* the corporate suffixes, as words
SuffixWords ==
    {<<"i", "n", "c">>, <<"i", "n", "c", ".">>, <<"l", "l", "c">>,
     <<"l", "t", "d">>, <<"l", "t", "d", ".">>, <<"c", "o", "r", "p">>,
     <<"c", "o", "r", "p", ".">>, <<"c", "o">>, <<"c", "o", ".">>}

\* what is left of a name when letter case, whitespace and a trailing
\* corporate suffix are disregarded: its lower-case words without the suffix
NameStem(name) ==
    LET words == split_whitespace(to_lowercase_chars(name))
    IN IF Len(words) > 1 /\ words[Len(words)] \in SuffixWords
       THEN SubSeq(words, 1, Len(words) - 1)
       ELSE words

SeqRange(q) == {q[k] : k \in 1..Len(q)}

\* C26: the rows whose supplier names differ only in letter case, in a
\* trailing corporate suffix or in whitespace are merged into exactly one
\* supplier, named by the first of these rows, with the row numbers and the
\* components of all of them; duplicate_count is the number of rows with a
\* supplier name minus the number of suppliers.
C26_MergedIntoOne ==
    (call.op = "extract" /\ call.done)
    => LET rows == call.bom.rows
           out == call.out[1]
           named == {i \in 1..Len(rows) : rows[i].supplier_name # None}
           Alike(i) ==
               {j \in named : NameStem(rows[j].supplier_name[1])
                                = NameStem(rows[i].supplier_name[1])}
           First(i) == CHOOSE j \in Alike(i) : \A k \in Alike(i) : j <= k
       IN /\ \A i \in named :
                \E supplier \in out.suppliers :
                   /\ SeqRange(supplier.source_rows)
                        = {rows[j].row_number : j \in Alike(i)}
                   /\ supplier.name = rows[First(i)].supplier_name[1]
                   /\ {c.source_row : c \in SeqRange(supplier.components)}
                        = {rows[j].row_number :
                              j \in {k \in Alike(i) :
                                        rows[k].part_number # None}}
                   /\ \A other \in out.suppliers :
                         rows[i].row_number \in SeqRange(other.source_rows)
                         => other = supplier
          /\ out.duplicate_count
               = Cardinality(named) - Cardinality(out.suppliers)


\* ------------------------------------------------------------ CAS validator
\* the sum of the digits d1 .. dn, each weighted by its position counted from
\* the right starting at 1: d1 * n + d2 * (n - 1) + ... + dn * 1
RECURSIVE PositionSum(_)
PositionSum(digits) ==
    IF digits = <<>> THEN 0
    ELSE to_digit(Head(digits))[1] * Len(digits) + PositionSum(Tail(digits))

IsDigitGroup(group) == \A i \in 1..Len(group) : IsAsciiDigit(group[i])

\* C27: on an input of three hyphen-separated digit groups validate_cas
\* reports format_valid iff the groups have 2 to 7, 2 and 1 digits, and
\* checksum_valid and is_valid iff moreover the position-weighted sum of the
\* digits of the first two groups is congruent modulo 10 to the check digit;
\* on an input without exactly three groups format_valid is false.
C27_ValidateCas ==
    (call.op = "validate_cas" /\ call.done)
    => LET groups == split(call.cas_number)
           out == call.out[1]
           sizes_fit == /\ Len(groups[1]) \in 2..7
                        /\ Len(groups[2]) = 2
                        /\ Len(groups[3]) = 1
       IN /\ Len(groups) # 3 => ~out.format_valid
          /\ (Len(groups) = 3 /\ \A g \in 1..3 : IsDigitGroup(groups[g]))
             => /\ out.format_valid <=> sizes_fit
                /\ out.checksum_valid
                   <=> /\ sizes_fit
                       /\ PositionSum(groups[1] \o groups[2]) % 10
                            = to_digit(groups[3][1])[1]
                /\ out.is_valid <=> out.checksum_valid

\* the CAS number of water is accepted
C27_Witness ==
    /\ call.op = "validate_cas" /\ call.done
    /\ call.cas_number = <<"7", "7", "3", "2", "-", "1", "8", "-", "5">>
    /\ call.out[1].is_valid


====
